---- MODULE Spec2Model ----
(***************************************************************************)
(* Model of the nimiqrpc client library:                                   *)
(*   nimiqrpc/jsonrpc.py   JsonRpcClient.call and its exceptions           *)
(*   nimiqrpc/util.py      satoshi_to_coin, coin_to_satoshi,               *)
(*                         ensure_satoshi, block_listener                  *)
(*   nimiqrpc/api.py       NimiqApi.send_transaction,                      *)
(*                         NimiqApi.get_transaction_by_hash                *)
(*   nimiqrpc/albatross.py AlbatrossApi.validator_key, AlbatrossApi.stake  *)
(***************************************************************************)
EXTENDS Integers, Sequences, FiniteSets, TLC

VARIABLES
    call_ids,   \* JsonRpcClient.call_ids: the value next() hands out next
    rpc_req,    \* call(): the request dict of the call in progress or last made
    out,        \* call(): how the last call ended (returned value or exception)
    http_seen,  \* call(): the HTTP exchange the last call got
    inflight,   \* HTTP requests posted and not yet answered
    posts,      \* HTTP requests posted since the client was created
    call_posts, \* HTTP requests posted by the call in progress or last made
    ncalls,     \* call() invocations since the client was created
    pc,         \* position of the (single) thread of the program
    op,         \* the domain operation in progress or last run, its arguments
    op_out,     \* how that operation ended
    node_tx,    \* the transaction dict the node last accepted (sendTransaction)
    sent_data,  \* the data argument of the send_transaction it came from
    height,     \* block_listener: local variable height
    first_block,\* block_listener: its argument
    trace,      \* block_listener: requests, answers, waits and yields so far
    cv          \* unit converter: argument and results of the conversions

rpc_vars == <<call_ids, rpc_req, out, http_seen, inflight, posts, call_posts, ncalls>>
api_vars == <<op, op_out, node_tx, sent_data>>
listener_vars == <<height, first_block, trace>>
vars == <<call_ids, rpc_req, out, http_seen, inflight, posts, call_posts, ncalls,
          pc, op, op_out, node_tx, sent_data, height, first_block, trace, cv>>

----------------------------------------------------------------------------
(* Bounds of the model *)

\* number of call() invocations explored on one client instance
MaxCalls == 3
\* largest correlation id a simulated server puts in an envelope
MaxRespId == 4
\* events (requests, answers, waits, yields) of one block_listener run
MaxEvents == 10
\* largest height a block_listener starts at
MaxStart == 2
\* most digits of an amount handed to the unit converter
MaxDigits == 30
\* most fractional digits (least exponent) of a Decimal amount
MaxFrac == 7
\* largest exponent of a Decimal amount
MaxExp == 1

----------------------------------------------------------------------------
(* JSON values as returned by resp.json().  Every value carries its type in *)
(* field t; a dict is a function from the keys it holds to JSON values.     *)

JNull == [t |-> "null"]
JInt(n) == [t |-> "int", n |-> n]
JStr(s) == [t |-> "str", s |-> s]
JBool(b) == [t |-> "bool", v |-> b]
JList == [t |-> "list"]
JObj(f) == [t |-> "dict", f |-> f]

\* Python's None: what dict.get gives for a missing key, and JSON null
None == JNull

\* rpc_resp.get(key): the value under key, None when the key is missing
Get(obj, key) == IF key \in DOMAIN obj.f THEN obj.f[key] ELSE None

\* Python's a != b between an int and a JSON value: values of different
\* types are unequal, values of the same type are compared
PyNeInt(v, n) == IF v.t = "int" THEN v.n # n ELSE TRUE

\* x is not None
IsNotNone(v) == v.t # "null"

----------------------------------------------------------------------------
(* What the HTTP exchange of one requests.post can produce *)

NoBody == [t |-> "none"]

\* the connection fails inside requests.post
HttpConnError == [kind |-> "conn_error", body |-> NoBody]
\* a response with an error status: resp.raise_for_status() raises
HttpBadStatus == [kind |-> "bad_status", body |-> NoBody]
\* success status, body is not JSON: resp.json() raises
HttpBadJson == [kind |-> "bad_json", body |-> NoBody]
\* success status, body is the JSON value b
HttpJson(b) == [kind |-> "json", body |-> b]

\* envelope ids a server can answer with: integers, a string, null
RespIds == {JInt(n) : n \in 1..MaxRespId} \cup {JStr(<<"1">>), JNull}
\* results and error objects of the generic transport
RespResults == {JNull, JInt(7)}
ErrObj(code) == [t |-> "error", code |-> code, message |-> "failed"]
RespErrors == {JNull, ErrObj(1), ErrObj(2)}

\* the dicts built from a choice of keys
Envelopes ==
    { JObj([k \in {"id", "result", "error"} |->
              CASE k = "id" -> i [] k = "result" -> r [] OTHER -> e]) :
        i \in RespIds, r \in RespResults, e \in RespErrors }
    \cup { JObj([k \in {"result", "error"} |->
              CASE k = "result" -> r [] OTHER -> e]) :
        r \in RespResults, e \in RespErrors }
    \cup { JObj([k \in {"id", "result"} |->
              CASE k = "id" -> i [] OTHER -> r]) :
        i \in RespIds, r \in RespResults }
    \cup { JObj([k \in {"id", "error"} |->
              CASE k = "id" -> i [] OTHER -> e]) :
        i \in RespIds, e \in RespErrors }

\* JSON bodies that are not a dict
NonDictBodies == {JList, JNull, JInt(1), JStr(<<"1">>)}

HttpOutcomes ==
    {HttpConnError, HttpBadStatus, HttpBadJson}
    \cup {HttpJson(b) : b \in Envelopes \cup NonDictBodies}

----------------------------------------------------------------------------
(* JsonRpcClient *)

NoReq == [jsonrpc |-> "2.0", method |-> "", params |-> <<>>, id |-> 0]

\* a finished call: a returned value or a raised exception
Return(v) == [kind |-> "return", exc |-> "", value |-> v,
              request |-> NoReq, response |-> NoBody]
Raise(e) == [kind |-> "raise", exc |-> e, value |-> None,
             request |-> NoReq, response |-> NoBody]
\* JsonRpcRemoteException(req, resp)
JsonRpcRemoteException(req, resp) ==
    [kind |-> "raise", exc |-> "JsonRpcRemoteException", value |-> None,
     request |-> req, response |-> resp]
NoOutcome == [kind |-> "none", exc |-> "", value |-> None,
              request |-> NoReq, response |-> NoBody]

\* a counter that hands out its value without advancing
count_next_stuck(c) == c

\* next(self.call_ids) on itertools.count: the value handed out, and the
\* counter afterwards
count_next(c) == c + 1

\* the request dict built by call()
make_request(method, args, call_id) ==
    [jsonrpc |-> "2.0", method |-> method, params |-> args, id |-> call_id]

\* an id test that lets an envelope without id pass
id_mismatch_lenient(rpc_resp, call_id) ==
    IsNotNone(Get(rpc_resp, "id")) /\ PyNeInt(Get(rpc_resp, "id"), call_id)

\* the id test of call()
id_mismatch(rpc_resp, call_id) == PyNeInt(Get(rpc_resp, "id"), call_id)

\* a call() that returns a result that is there before it looks at the error
call_outcome_result_first(req, http) ==
    IF http.kind = "conn_error" THEN Raise("ConnectionError")
    ELSE IF http.kind = "bad_status" THEN Raise("HTTPError")
    ELSE IF http.kind = "bad_json" THEN Raise("JSONDecodeError")
    ELSE IF http.body.t # "dict" THEN Raise("AttributeError")
    ELSE IF id_mismatch(http.body, req.id) THEN Raise("JsonRpcError")
    ELSE IF IsNotNone(Get(http.body, "result"))
         THEN Return(Get(http.body, "result"))
    ELSE IF IsNotNone(Get(http.body, "error"))
         THEN JsonRpcRemoteException(req, http.body)
    ELSE Return(Get(http.body, "result"))

\* call() from requests.post to its end, for the exchange http
call_outcome(req, http) ==
    IF http.kind = "conn_error" THEN Raise("ConnectionError")
    ELSE IF http.kind = "bad_status" THEN Raise("HTTPError")
    ELSE IF http.kind = "bad_json" THEN Raise("JSONDecodeError")
    ELSE IF http.body.t # "dict" THEN Raise("AttributeError")
    ELSE IF id_mismatch(http.body, req.id) THEN Raise("JsonRpcError")
    ELSE IF IsNotNone(Get(http.body, "error"))
         THEN JsonRpcRemoteException(req, http.body)
    ELSE Return(Get(http.body, "result"))

NoHttp == [kind |-> "none", body |-> NoBody]

\* JsonRpcClient.__init__
rpc_init ==
    /\ call_ids = 1
    /\ rpc_req = NoReq
    /\ out = NoOutcome
    /\ http_seen = NoHttp
    /\ inflight = 0
    /\ posts = 0
    /\ call_posts = 0
    /\ ncalls = 0

\* call(), up to and including requests.post: the id is taken, the request
\* is built and posted
call_post(method, args) ==
    /\ call_ids' = count_next(call_ids)
    /\ rpc_req' = make_request(method, args, call_ids)
    /\ posts' = posts + 1
    /\ call_posts' = 1
    /\ inflight' = inflight + 1
    /\ ncalls' = ncalls + 1
    /\ out' = NoOutcome
    /\ http_seen' = NoHttp

\* call(), from the end of the HTTP exchange to its return or raise
call_finish(http) ==
    /\ out' = call_outcome(rpc_req, http)
    /\ http_seen' = http
    /\ inflight' = inflight - 1
    /\ UNCHANGED <<call_ids, rpc_req, posts, call_posts, ncalls>>

----------------------------------------------------------------------------
(* Idle values of the parts a specification does not exercise *)

NoValue == [type |-> "none", sign |-> 0, int |-> <<0>>, exp |-> 0]
NoOp == [name |-> "none", value |-> NoValue, fee |-> NoValue, data |-> None,
         ids0 |-> 0, posts0 |-> 0]
NoTx == [t |-> "none"]
NoCv == [pc |-> "none"]

api_idle == op = NoOp /\ op_out = NoOutcome /\ node_tx = NoTx /\ sent_data = None
listener_idle == height = 0 /\ first_block = None /\ trace = <<>>
cv_idle == cv = NoCv

----------------------------------------------------------------------------
(* Spec: one JsonRpcClient on which call() is invoked MaxCalls times, one   *)
(* invocation after the other, against a server that may answer anything.   *)

\* the calls a caller makes: method name and positional arguments
Calls == { <<"blockNumber", <<>> >>, <<"getBlockByNumber", <<JInt(5)>> >> }

Init ==
    /\ rpc_init
    /\ pc = "idle"
    /\ api_idle /\ listener_idle /\ cv_idle

\* jsonrpc.py 49-62: the caller invokes call(method, *args)
Call(method, args) ==
    /\ pc = "idle"
    /\ ncalls < MaxCalls
    /\ call_post(method, args)
    /\ pc' = "posted"
    /\ UNCHANGED <<api_vars, listener_vars, cv>>

\* jsonrpc.py 58-74: the HTTP exchange ends and call() returns or raises
CallReturn(http) ==
    /\ pc = "posted"
    /\ call_finish(http)
    /\ pc' = "idle"
    /\ UNCHANGED <<api_vars, listener_vars, cv>>

Next ==
    \/ \E c \in Calls : Call(c[1], c[2])
    \/ \E http \in HttpOutcomes : CallReturn(http)

Spec == Init /\ [][Next]_vars

\* the last call has ended
CallDone == pc = "idle" /\ ncalls > 0
\* the last call got a JSON dict as response body
GotEnvelope == http_seen.kind = "json" /\ http_seen.body.t = "dict"

(* C1: the k-th invocation of call() on a client builds its request with id *)
(* k, whatever the outcomes of the invocations before it: after k           *)
(* invocations the request of the last one has id k and the counter stands  *)
(* at k + 1.                                                                *)
C1_IdsAreCallNumbers ==
    /\ call_ids = ncalls + 1
    /\ ncalls > 0 => rpc_req.id = ncalls

\* a third call has been made and has raised
C1_Witness ==
    /\ ncalls = 3 /\ rpc_req.id = 3 /\ pc = "idle" /\ out.kind = "raise"

C3_AnyErrorIsRemote ==
    (CallDone /\ GotEnvelope /\ IsNotNone(Get(http_seen.body, "error")))
    => (out.kind = "raise" /\ out.exc = "JsonRpcRemoteException"
        /\ out.request = rpc_req
        /\ Get(out.response, "error") = Get(http_seen.body, "error"))

(* C3 amended: a response whose id equals the id sent and whose error field *)
(* is non-null makes call() raise JsonRpcRemoteException carrying the       *)
(* request (method, arguments, id) and the response with that error object; *)
(* no response with a non-null error field makes call() return a result.    *)
C3_CorrelatedErrorIsRemote ==
    /\ (CallDone /\ GotEnvelope /\ IsNotNone(Get(http_seen.body, "error"))
          /\ ~id_mismatch(http_seen.body, rpc_req.id))
        => (out.kind = "raise" /\ out.exc = "JsonRpcRemoteException"
            /\ out.request = rpc_req
            /\ out.request.method = rpc_req.method
            /\ out.request.params = rpc_req.params
            /\ out.request.id = rpc_req.id
            /\ Get(out.response, "error") = Get(http_seen.body, "error"))
    /\ (CallDone /\ GotEnvelope /\ IsNotNone(Get(http_seen.body, "error")))
        => out.kind = "raise"

\* a correlated envelope with both a result and an error has been answered
C3_Witness ==
    /\ CallDone /\ GotEnvelope
    /\ ~id_mismatch(http_seen.body, rpc_req.id)
    /\ Get(http_seen.body, "error") = ErrObj(2)
    /\ Get(http_seen.body, "result").t = "int"
    /\ out.exc = "JsonRpcRemoteException"
    /\ rpc_req.method = "getBlockByNumber"

(* C4: when the exchange succeeds but the body is not a JSON response       *)
(* envelope (not JSON, or JSON that is not an object), call() raises        *)
(* JsonRpcError.                                                            *)
C4_UnparsableIsJsonRpcError ==
    (CallDone /\ (http_seen.kind = "bad_json"
                   \/ (http_seen.kind = "json" /\ http_seen.body.t # "dict")))
    => (out.kind = "raise" /\ out.exc = "JsonRpcError")

----------------------------------------------------------------------------
(* Unit converter (util.py).  A Python int is a sign and its decimal digits, *)
(* most significant first; a Decimal is a sign, a coefficient (digits) and   *)
(* an exponent: (-1)^sign * int * 10^exp.  Values of other types carry only  *)
(* their type.                                                               *)

SATOSHI_PER_COIN == 100000

\* precision of the decimal context in force (decimal's default context)
Prec == 28

Zeros(k) == [i \in 1..k |-> 0]

PyInt(sign, digits) == [type |-> "int", sign |-> sign, int |-> digits, exp |-> 0]
Decimal(sign, digits, exp) ==
    [type |-> "Decimal", sign |-> sign, int |-> digits, exp |-> exp]
OtherValue(type) == [type |-> type, sign |-> 0, int |-> <<0>>, exp |-> 0]
ValueError == OtherValue("ValueError")

\* digits without leading zeros (int("007") = 7, int("") = 0)
RECURSIVE StripLeading(_)
StripLeading(d) ==
    IF Len(d) = 0 THEN <<0>>
    ELSE IF Len(d) > 1 /\ d[1] = 0 THEN StripLeading(Tail(d))
    ELSE d

\* the decimal digits of a small natural number
RECURSIVE IntDigits(_)
IntDigits(n) == IF n < 10 THEN <<n>> ELSE Append(IntDigits(n \div 10), n % 10)

\* digits of d + 1
RECURSIVE Increment(_)
Increment(d) ==
    IF Len(d) = 0 THEN <<1>>
    ELSE IF d[Len(d)] < 9 THEN [d EXCEPT ![Len(d)] = @ + 1]
    ELSE Append(Increment(SubSeq(d, 1, Len(d) - 1)), 0)

\* digits of d * m, for a small natural m (schoolbook, from the last digit)
RECURSIVE MulAcc(_, _, _, _)
MulAcc(d, m, i, carry) ==
    IF i = 0 THEN (IF carry = 0 THEN <<>> ELSE IntDigits(carry))
    ELSE LET p == d[i] * m + carry
         IN  Append(MulAcc(d, m, i - 1, p \div 10), p % 10)
MulSmall(d, m) == StripLeading(MulAcc(d, m, Len(d), 0))

\* divmod(d, m) for a small positive m (long division, from the first digit)
RECURSIVE DivAcc(_, _, _, _)
DivAcc(d, m, i, rem) ==
    IF i > Len(d) THEN [q |-> <<>>, r |-> rem]
    ELSE LET cur == rem * 10 + d[i]
             rest == DivAcc(d, m, i + 1, cur % m)
         IN  [q |-> <<cur \div m>> \o rest.q, r |-> rest.r]
DivModSmall(d, m) ==
    LET x == DivAcc(d, m, 1, 0) IN [q |-> StripLeading(x.q), r |-> x.r]

AllZero(d) == \A i \in 1..Len(d) : d[i] = 0

\* the context's rounding (ROUND_HALF_EVEN) of a coefficient from which the
\* last r digits are dropped, 1 <= r <= Len(d)
RoundHalfEven(d, r) ==
    LET n == Len(d)
        kept == StripLeading(SubSeq(d, 1, n - r))
        first == d[n - r + 1]
        tail == SubSeq(d, n - r + 2, n)
        up == \/ first > 5
              \/ first = 5 /\ ~AllZero(tail)
              \/ first = 5 /\ AllZero(tail) /\ kept[Len(kept)] % 2 = 1
    IN  IF up THEN Increment(kept) ELSE kept

\* Decimal._fix: a result is rounded to the precision of the context
Fix(dec) ==
    IF Len(dec.int) <= Prec THEN dec
    ELSE LET r == Len(dec.int) - Prec
             c == RoundHalfEven(dec.int, r)
         IN  IF Len(c) > Prec
             THEN [dec EXCEPT !.int = SubSeq(c, 1, Prec), !.exp = dec.exp + r + 1]
             ELSE [dec EXCEPT !.int = c, !.exp = dec.exp + r]

\* Decimal(n) for an int n: exact
DecimalOfInt(n) == Decimal(n.sign, n.int, 0)

\* dec * m for an int m > 0 (Decimal.__mul__): the coefficients are
\* multiplied, the exponents added, the result rounded by the context
DecMul(dec, m) == Fix([dec EXCEPT !.int = MulSmall(dec.int, m)])

\* an exact quotient is reduced towards the ideal exponent
RECURSIVE Reduce(_, _)
Reduce(dec, ideal) ==
    IF dec.exp < ideal /\ Len(dec.int) > 1 /\ dec.int[Len(dec.int)] = 0
    THEN Reduce([dec EXCEPT !.int = SubSeq(dec.int, 1, Len(dec.int) - 1),
                            !.exp = dec.exp + 1], ideal)
    ELSE IF dec.exp < ideal /\ dec.int = <<0>>
    THEN [dec EXCEPT !.exp = ideal]
    ELSE dec

\* dec / m for an int m > 0 (Decimal.__truediv__): the coefficient is
\* scaled to Prec + 1 digits more than the divisor, divided, a remainder is
\* made sticky, and the result is rounded by the context
DecDiv(dec, m) ==
    LET md == IntDigits(m)
        shift == Len(md) - Len(dec.int) + Prec + 1
        num == IF shift >= 0 THEN dec.int \o Zeros(shift)
               ELSE SubSeq(dec.int, 1, Len(dec.int) + shift)
        low == IF shift >= 0 THEN <<>>
               ELSE SubSeq(dec.int, Len(dec.int) + shift + 1, Len(dec.int))
        dm == DivModSmall(StripLeading(num), m)
        exact == dm.r = 0 /\ AllZero(low)
        coeff == IF ~exact /\ dm.q[Len(dm.q)] % 5 = 0
                 THEN Increment(dm.q) ELSE dm.q
        raw == [dec EXCEPT !.int = coeff, !.exp = dec.exp - shift]
    IN  Fix(IF exact THEN Reduce(raw, dec.exp) ELSE raw)

\* int(dec) (Decimal.__int__): truncation towards zero
DecToInt(dec) ==
    LET n == Len(dec.int)
        d == IF dec.exp >= 0 THEN StripLeading(dec.int \o Zeros(dec.exp))
             ELSE IF -dec.exp >= n THEN <<0>>
             ELSE StripLeading(SubSeq(dec.int, 1, n + dec.exp))
    IN  PyInt(IF d = <<0>> THEN 0 ELSE dec.sign, d)

\* a conversion to coins that divides by a tenth of the rate
satoshi_to_coin_wrong_rate(satoshi) ==
    DecDiv(DecimalOfInt(satoshi), SATOSHI_PER_COIN \div 10)

\* util.py 15-21
satoshi_to_coin(satoshi) == DecDiv(DecimalOfInt(satoshi), SATOSHI_PER_COIN)

\* a conversion to subunits that truncates before it multiplies
coin_to_satoshi_int_first(coin) ==
    PyInt(DecToInt(coin).sign, MulSmall(DecToInt(coin).int, SATOSHI_PER_COIN))

\* util.py 24-30
coin_to_satoshi(coin) == DecToInt(DecMul(coin, SATOSHI_PER_COIN))

\* util.py 33-45; ValueError stands for the raised exception
ensure_satoshi(value) ==
    IF value.type = "Decimal" THEN coin_to_satoshi(value)
    ELSE IF value.type = "int" THEN value
    ELSE ValueError

----------------------------------------------------------------------------
(* SpecConv: the unit converter applied to amounts of every supported and   *)
(* unsupported type.                                                        *)

\* digit strings of a given length: a leading digit, a run of one digit, a
\* last digit
Coefs ==
    { <<a>> : a \in 0..9 }
    \cup { <<a>> \o [i \in 1..(n - 2) |-> f] \o <<b>> :
             a \in {1, 9}, f \in {0, 9}, b \in {0, 1, 5, 9}, n \in 2..MaxDigits }
    \cup { <<1, 2, 3, 4, 5, 6, 7>> }

UnsupportedTypes == {"float", "str", "bool", "NoneType"}

ConvInputs ==
    ({ PyInt(sg, c) : sg \in {0, 1}, c \in Coefs } \ { PyInt(1, <<0>>) })
    \cup { Decimal(sg, c, e) : sg \in {0, 1}, c \in Coefs, e \in (-MaxFrac)..MaxExp }
    \cup { OtherValue(ty) : ty \in UnsupportedTypes }

InitConv ==
    /\ rpc_init
    /\ pc = "idle"
    /\ api_idle /\ listener_idle
    /\ cv \in { [pc |-> "start", arg |-> v, coin |-> NoValue, result |-> NoValue] :
                  v \in ConvInputs }

\* ensure_satoshi(value)
EnsureSatoshi ==
    /\ cv.pc = "start"
    /\ cv' = [cv EXCEPT !.pc = "ensured", !.result = ensure_satoshi(cv.arg)]
    /\ UNCHANGED <<rpc_vars, pc, api_vars, listener_vars>>

\* satoshi_to_coin(satoshi), satoshi an int
SatoshiToCoin ==
    /\ cv.pc = "start"
    /\ cv.arg.type = "int"
    /\ cv' = [cv EXCEPT !.pc = "coin", !.coin = satoshi_to_coin(cv.arg)]
    /\ UNCHANGED <<rpc_vars, pc, api_vars, listener_vars>>

\* coin_to_satoshi(coin) on the Decimal satoshi_to_coin returned
CoinToSatoshi ==
    /\ cv.pc = "coin"
    /\ cv' = [cv EXCEPT !.pc = "back", !.result = coin_to_satoshi(cv.coin)]
    /\ UNCHANGED <<rpc_vars, pc, api_vars, listener_vars>>

NextConv == EnsureSatoshi \/ SatoshiToCoin \/ CoinToSatoshi

SpecConv == InitConv /\ [][NextConv]_vars

\* the digits of floor(c * 10^k) for a coefficient c
ShiftTrunc(c, k) ==
    IF k >= 0 THEN StripLeading(c \o Zeros(k))
    ELSE IF -k >= Len(c) THEN <<0>>
    ELSE StripLeading(SubSeq(c, 1, Len(c) + k))

\* the integer part of d * 100000 for a non-negative Decimal d
ExactSubunits(d) ==
    LET c == ShiftTrunc(d.int, d.exp + 5)
    IN  [type |-> "int", sign |-> 0, int |-> c, exp |-> 0]

\* ensure_satoshi has been applied to a non-negative Decimal
EnsuredDecimal == cv.pc = "ensured" /\ cv.arg.type = "Decimal" /\ cv.arg.sign = 0

RoundTripDone == cv.pc = "back" /\ cv.arg.type = "int" /\ cv.arg.sign = 0

----------------------------------------------------------------------------
(* Binary fields (binascii).  bytes are sequences of 0..255, strings are    *)
(* sequences of characters.                                                 *)

JBytes(b) == [t |-> "bytes", b |-> b]

HexChars == <<"0", "1", "2", "3", "4", "5", "6", "7",
              "8", "9", "a", "b", "c", "d", "e", "f">>

\* the value of a hexadecimal digit of either case, -1 for other characters
HexVal(c) ==
    CASE c = "0" -> 0 [] c = "1" -> 1 [] c = "2" -> 2 [] c = "3" -> 3
      [] c = "4" -> 4 [] c = "5" -> 5 [] c = "6" -> 6 [] c = "7" -> 7
      [] c = "8" -> 8 [] c = "9" -> 9
      [] c \in {"a", "A"} -> 10 [] c \in {"b", "B"} -> 11
      [] c \in {"c", "C"} -> 12 [] c \in {"d", "D"} -> 13
      [] c \in {"e", "E"} -> 14 [] c \in {"f", "F"} -> 15
      [] OTHER -> -1

\* hexlify(b).decode(): two lowercase digits per byte
hexlify(b) ==
    [i \in 1..(2 * Len(b)) |->
        IF i % 2 = 1 THEN HexChars[(b[(i + 1) \div 2] \div 16) + 1]
        ELSE HexChars[(b[i \div 2] % 16) + 1]]

\* unhexlify(s) raises binascii.Error on an odd length or a non-digit
unhexlify_fails(s) ==
    Len(s) % 2 = 1 \/ \E i \in 1..Len(s) : HexVal(s[i]) < 0
unhexlify(s) ==
    [i \in 1..(Len(s) \div 2) |-> 16 * HexVal(s[2 * i - 1]) + HexVal(s[2 * i])]

----------------------------------------------------------------------------
(* NimiqApi / AlbatrossApi *)

\* api.py 82-90: the argument of sendTransaction; ValueError when an amount
\* has an unsupported type
send_transaction_raises(value, fee) ==
    ensure_satoshi(value) = ValueError \/ ensure_satoshi(fee) = ValueError
send_transaction_dict(from_addr, to_addr, value, fee, to_type, flags, data) ==
    JObj([k \in {"from", "to", "value", "fee", "flags", "data", "toType"} |->
        CASE k = "from" -> JStr(from_addr)
          [] k = "to" -> JStr(to_addr)
          [] k = "value" -> ensure_satoshi(value)
          [] k = "fee" -> ensure_satoshi(fee)
          [] k = "flags" -> JInt(flags)
          [] k = "data" -> (IF data.t = "null" THEN None ELSE JStr(hexlify(data.b)))
          [] OTHER -> JInt(to_type)])

\* a decoding that turns a null or absent data field into empty bytes
decode_tx_null_as_empty(tx) ==
    IF tx.t # "dict" THEN Raise("AttributeError")
    ELSE IF IsNotNone(Get(tx, "data"))
         THEN IF unhexlify_fails(Get(tx, "data").s) THEN Raise("binascii.Error")
              ELSE Return(JObj([tx.f EXCEPT !["data"] = JBytes(unhexlify(@.s))]))
    ELSE Return(JObj([k \in DOMAIN tx.f \cup {"data"} |->
                        IF k = "data" THEN JBytes(<<>>) ELSE tx.f[k]]))

\* api.py 99-101: the data field of the transaction is decoded in place
decode_tx(tx) ==
    IF tx.t # "dict" THEN Raise("AttributeError")
    ELSE IF IsNotNone(Get(tx, "data"))
         THEN IF unhexlify_fails(Get(tx, "data").s) THEN Raise("binascii.Error")
              ELSE Return(JObj([tx.f EXCEPT !["data"] = JBytes(unhexlify(@.s))]))
    ELSE Return(tx)

\* albatross.py 18-21: the two fields of the validatorKey result are decoded
validator_key_result(ret) ==
    IF ret.t # "dict" THEN Raise("TypeError")
    ELSE IF {"validatorKey", "proofOfKnowledge"} \ DOMAIN ret.f # {}
         THEN Raise("KeyError")
    ELSE IF unhexlify_fails(ret.f["validatorKey"].s)
            \/ unhexlify_fails(ret.f["proofOfKnowledge"].s)
         THEN Raise("binascii.Error")
    ELSE Return(JObj([k \in {"validator_key", "proof_of_knowledge"} |->
            IF k = "validator_key" THEN JBytes(unhexlify(ret.f["validatorKey"].s))
            ELSE JBytes(unhexlify(ret.f["proofOfKnowledge"].s))]))

\* albatross.py 25-32: the positional arguments of the stake call
stake_args(validator_info, staker_address, value, reward_address) ==
    << JStr(hexlify(validator_info.f["validator_key"].b)),
       JStr(hexlify(validator_info.f["proof_of_knowledge"].b)),
       JStr(staker_address),
       ensure_satoshi(value),
       JStr(reward_address) >>

----------------------------------------------------------------------------
(* SpecApi: send_transaction, stake and get_transaction_by_hash run one     *)
(* after the other on one client, with amounts of every type.               *)

Addr1 == <<"N", "Q", "1">>
Addr2 == <<"N", "Q", "2">>
TxHash == <<"7", "4">>

\* amounts a caller passes: subunits, coins, and values of other types
ApiAmounts == {PyInt(0, <<1, 0>>), Decimal(0, <<1, 5>>, -1),
               OtherValue("float"), OtherValue("str")}
\* data a caller passes
ApiData == {None, JBytes(<<222, 173, 190, 239>>), JBytes(<<>>), JBytes(<<0, 255>>)}

\* strings a node may put in the data and raw fields of a transaction
NodeStrings ==
    {hexlify(d.b) : d \in ApiData \ {None}}
    \cup { <<"D", "E", "a", "d">>, <<"a", "b", "c">>, <<"x", "y">> }

TxFields(h, d, r) ==
    [k \in {"hash", "data", "raw"} |->
        CASE k = "hash" -> JStr(h) [] k = "data" -> d [] OTHER -> r]
\* transaction dicts with the data and raw fields present, null or absent
TxDicts ==
    LET vals == {JStr(x) : x \in NodeStrings} \cup {JNull}
        full == {TxFields(TxHash, d, r) : d \in vals, r \in {JNull, JStr(<<"0", "1">>)}}
    IN  {JObj(f) : f \in full}
        \cup {JObj([k \in {"hash", "data"} |-> f[k]]) : f \in full}
        \cup {JObj([k \in {"hash", "raw"} |-> f[k]]) : f \in full}
        \cup {JObj([k \in {"hash"} |-> f[k]]) : f \in full}

ValidatorKeyDict ==
    JObj([k \in {"validatorKey", "proofOfKnowledge"} |->
            IF k = "validatorKey" THEN JStr(<<"0", "a">>) ELSE JStr(<<"F", "f">>)])

\* the results a node gives for a method
ApiResults(method) ==
    CASE method = "sendTransaction" -> {JStr(TxHash)}
      [] method = "validatorKey" -> {ValidatorKeyDict, JNull}
      [] method = "stake" -> {JNull}
      [] OTHER -> TxDicts \cup {JNull}

Envelope(i, r, e) ==
    JObj([k \in {"id", "result", "error"} |->
            CASE k = "id" -> i [] k = "result" -> r [] OTHER -> e])

\* the exchanges the call in progress may get
ApiHttp ==
    {HttpConnError, HttpBadJson,
     HttpJson(Envelope(JNull, JNull, ErrObj(1))),
     HttpJson(Envelope(JInt(rpc_req.id), JNull, ErrObj(2)))}
    \cup {HttpJson(Envelope(JInt(rpc_req.id), r, JNull)) :
            r \in ApiResults(rpc_req.method)}

InitApi ==
    /\ rpc_init
    /\ pc = "idle"
    /\ api_idle /\ listener_idle /\ cv_idle

StartOp(name, value, fee, data) ==
    [name |-> name, value |-> value, fee |-> fee, data |-> data,
     ids0 |-> call_ids, posts0 |-> posts]

\* api.py 82-90: send_transaction evaluates its argument dict, then calls
SendTransaction(value, fee, data) ==
    /\ pc = "idle"
    /\ ncalls < MaxCalls
    /\ op' = StartOp("send_transaction", value, fee, data)
    /\ IF send_transaction_raises(value, fee)
       THEN /\ op_out' = Raise("ValueError")
            /\ pc' = "idle"
            /\ UNCHANGED rpc_vars
       ELSE /\ call_post("sendTransaction",
                   <<send_transaction_dict(Addr1, Addr2, value, fee, 0, 0, data)>>)
            /\ op_out' = NoOutcome
            /\ pc' = "send_posted"
    /\ UNCHANGED <<node_tx, sent_data, listener_vars, cv>>

\* send_transaction returns what call returns; a node that answers with a
\* result has accepted the transaction
SendTransactionReturn(http) ==
    /\ pc = "send_posted"
    /\ call_finish(http)
    /\ op_out' = call_outcome(rpc_req, http)
    /\ IF call_outcome(rpc_req, http).kind = "return"
       THEN node_tx' = rpc_req.params[1] /\ sent_data' = op.data
       ELSE UNCHANGED <<node_tx, sent_data>>
    /\ pc' = "idle"
    /\ UNCHANGED <<op, listener_vars, cv>>

\* albatross.py 24 (and 17): stake first calls validator_key()
Stake(value) ==
    /\ pc = "idle"
    /\ ncalls < MaxCalls
    /\ op' = StartOp("stake", value, NoValue, None)
    /\ call_post("validatorKey", <<>>)
    /\ op_out' = NoOutcome
    /\ pc' = "stake_key_posted"
    /\ UNCHANGED <<node_tx, sent_data, listener_vars, cv>>

\* albatross.py 18-32: the validator material is decoded, the arguments of
\* the stake call are evaluated, and the stake call is posted
StakeKeyReturn(http) ==
    /\ pc = "stake_key_posted"
    /\ LET ret == call_outcome(rpc_req, http)
           info == IF ret.kind = "return" THEN validator_key_result(ret.value) ELSE ret
       IN  IF info.kind = "raise"
           THEN call_finish(http) /\ op_out' = info /\ pc' = "idle"
           ELSE IF ensure_satoshi(op.value) = ValueError
           THEN call_finish(http) /\ op_out' = Raise("ValueError") /\ pc' = "idle"
           ELSE /\ call_post("stake", stake_args(info.value, Addr1, op.value, Addr2))
                /\ op_out' = NoOutcome
                /\ pc' = "stake_posted"
    /\ UNCHANGED <<op, node_tx, sent_data, listener_vars, cv>>

\* albatross.py 25-32: stake returns nothing when the call returns
StakeReturn(http) ==
    /\ pc = "stake_posted"
    /\ call_finish(http)
    /\ op_out' = IF call_outcome(rpc_req, http).kind = "return"
                 THEN Return(None) ELSE call_outcome(rpc_req, http)
    /\ pc' = "idle"
    /\ UNCHANGED <<op, node_tx, sent_data, listener_vars, cv>>

\* api.py 98: get_transaction_by_hash calls getTransactionByHash
GetTransactionByHash ==
    /\ pc = "idle"
    /\ ncalls < MaxCalls
    /\ op' = StartOp("get_transaction_by_hash", NoValue, NoValue, None)
    /\ call_post("getTransactionByHash", <<JStr(TxHash)>>)
    /\ op_out' = NoOutcome
    /\ pc' = "get_posted"
    /\ UNCHANGED <<node_tx, sent_data, listener_vars, cv>>

\* api.py 98-101: the result of the call is decoded and returned
GetTransactionByHashReturn(http) ==
    /\ pc = "get_posted"
    /\ call_finish(http)
    /\ op_out' = IF call_outcome(rpc_req, http).kind = "return"
                 THEN decode_tx(call_outcome(rpc_req, http).value)
                 ELSE call_outcome(rpc_req, http)
    /\ pc' = "idle"
    /\ UNCHANGED <<op, node_tx, sent_data, listener_vars, cv>>

NextApi ==
    \/ \E v \in ApiAmounts, f \in ApiAmounts, d \in ApiData : SendTransaction(v, f, d)
    \/ \E http \in ApiHttp : SendTransactionReturn(http)
    \/ \E v \in ApiAmounts : Stake(v)
    \/ \E http \in ApiHttp : StakeKeyReturn(http)
    \/ \E http \in ApiHttp : StakeReturn(http)
    \/ GetTransactionByHash
    \/ \E http \in ApiHttp : GetTransactionByHashReturn(http)

SpecApi == InitApi /\ [][NextApi]_vars

\* an operation has ended
OpDone(name) == pc = "idle" /\ op.name = name /\ op_out.kind # "none"
Unsupported(v) == v.type \notin {"int", "Decimal"}

(* C5: an amount-bearing operation (send_transaction value and fee, stake   *)
(* value) given an amount that is neither int nor Decimal fails with        *)
(* ValueError, and until then no request has been posted and no            *)
(* correlation id has been taken.                                           *)
C5_ValueErrorBeforeAnyCall ==
    /\ (OpDone("send_transaction") /\ (Unsupported(op.value) \/ Unsupported(op.fee)))
        => (op_out.exc = "ValueError" /\ posts = op.posts0 /\ call_ids = op.ids0)
    /\ (OpDone("stake") /\ Unsupported(op.value))
        => (op_out.exc = "ValueError" /\ posts = op.posts0 /\ call_ids = op.ids0)

\* get_transaction_by_hash has returned a transaction
GotTx == OpDone("get_transaction_by_hash") /\ op_out.kind = "return"
\* the transaction dict the node answered with
NodeAnswer == Get(http_seen.body, "result")
\* b is what the hexadecimal string x encodes
Decodes(x, b) ==
    /\ x.t = "bytes"
    /\ 2 * Len(x.b) = Len(b)
    /\ \A i \in 1..Len(x.b) :
          x.b[i] = 16 * HexVal(b[2 * i - 1]) + HexVal(b[2 * i])
\* field k of the returned transaction is the decoded field k of the answer,
\* or is null or absent as it is in the answer
FieldDecoded(k) ==
    /\ k \in DOMAIN NodeAnswer.f <=> k \in DOMAIN op_out.value.f
    /\ k \in DOMAIN NodeAnswer.f =>
          IF NodeAnswer.f[k].t = "null" THEN op_out.value.f[k].t = "null"
          ELSE Decodes(op_out.value.f[k], NodeAnswer.f[k].s)
\* bytes sent as data by send_transaction and echoed by the node come back
EchoComesBack ==
    (node_tx # NoTx /\ sent_data.t = "bytes" /\ Get(NodeAnswer, "data").t = "str"
        /\ Get(NodeAnswer, "data").s = Get(node_tx, "data").s)
    => op_out.value.f["data"] = sent_data

----------------------------------------------------------------------------
(* SpecListener: one block_listener generator and its consumer, against a   *)
(* node that answers each request with the block, with null or with a       *)
(* failure.                                                                 *)

Event(ev, h) == [ev |-> ev, h |-> h]
Block(h) == JObj([k \in {"number"} |-> JInt(h)])

\* the exchanges the request in progress may get
ListenerHttp ==
    {HttpConnError, HttpBadStatus,
     HttpJson(Envelope(JNull, JNull, ErrObj(1))),
     HttpJson(Envelope(JInt(rpc_req.id), JNull, ErrObj(2)))}
    \cup {HttpJson(Envelope(JInt(rpc_req.id), r, JNull)) :
            r \in IF rpc_req.method = "getBlockByNumber"
                  THEN {JNull, Block(rpc_req.params[1].n)}
                  ELSE {JInt(h) : h \in 0..MaxStart}}

InitListener ==
    /\ rpc_init
    /\ pc = "created"
    /\ api_idle /\ cv_idle
    /\ height = 0
    /\ trace = <<>>
    /\ first_block \in {None} \cup {JInt(h) : h \in 0..MaxStart}

\* util.py 54-57: the consumer asks for the first block; the starting height
\* is first_block, or is asked from the node
ListenerStart ==
    /\ pc = "created"
    /\ IF first_block.t = "null"
       THEN /\ call_post("blockNumber", <<>>)
            /\ pc' = "number_posted"
            /\ UNCHANGED <<height, trace>>
       ELSE /\ height' = first_block.n
            /\ trace' = Append(trace, Event("start", first_block.n))
            /\ pc' = "loop"
            /\ UNCHANGED rpc_vars
    /\ UNCHANGED <<first_block, api_vars, cv>>

\* util.py 55: block_number() returns the height or raises
ListenerHeight(http) ==
    /\ pc = "number_posted"
    /\ call_finish(http)
    /\ IF call_outcome(rpc_req, http).kind = "raise"
       THEN /\ pc' = "raised"
            /\ trace' = Append(trace, Event("error", 0))
            /\ UNCHANGED height
       ELSE /\ height' = call_outcome(rpc_req, http).value.n
            /\ trace' = Append(trace, Event("start", call_outcome(rpc_req, http).value.n))
            /\ pc' = "loop"
    /\ UNCHANGED <<first_block, api_vars, cv>>

\* util.py 59, api.py 167: get_block_by_number(height) posts its request
ListenerRequest ==
    /\ pc = "loop"
    /\ Len(trace) < MaxEvents
    /\ call_post("getBlockByNumber", <<JInt(height), JBool(FALSE)>>)
    /\ trace' = Append(trace, Event("request", height))
    /\ pc' = "block_posted"
    /\ UNCHANGED <<height, first_block, api_vars, cv>>

\* a listener that waits and asks again when the request failed
ListenerAnswer_retry(http) ==
    /\ pc = "block_posted"
    /\ call_finish(http)
    /\ LET block == call_outcome(rpc_req, http)
       IN  IF block.kind = "raise" \/ block.value.t = "null"
           THEN pc' = "sleep" /\ trace' = Append(trace, Event("null", height))
           ELSE /\ pc' = "yielded"
                /\ trace' = Append(trace, Event("yield", block.value.f["number"].n))
    /\ UNCHANGED <<height, first_block, api_vars, cv>>

\* util.py 59-63: the answer is a failure (propagated), null (wait) or a
\* block (yielded)
ListenerAnswer(http) ==
    /\ pc = "block_posted"
    /\ call_finish(http)
    /\ LET block == call_outcome(rpc_req, http)
       IN  IF block.kind = "raise"
           THEN pc' = "raised" /\ trace' = Append(trace, Event("error", height))
           ELSE IF block.value.t = "null"
           THEN pc' = "sleep" /\ trace' = Append(trace, Event("null", height))
           ELSE /\ pc' = "yielded"
                /\ trace' = Append(trace, Event("yield", block.value.f["number"].n))
    /\ UNCHANGED <<height, first_block, api_vars, cv>>

\* util.py 61: sleep(1)
ListenerSleep ==
    /\ pc = "sleep"
    /\ trace' = Append(trace, Event("sleep", 1))
    /\ pc' = "loop"
    /\ UNCHANGED <<height, first_block, rpc_vars, api_vars, cv>>

\* a listener that does not advance after a yield
ListenerResume_same_height ==
    /\ pc = "yielded"
    /\ pc' = "loop"
    /\ UNCHANGED <<height, trace, first_block, rpc_vars, api_vars, cv>>

\* util.py 64: the consumer asks for the next block, height += 1
ListenerResume ==
    /\ pc = "yielded"
    /\ height' = height + 1
    /\ pc' = "loop"
    /\ UNCHANGED <<trace, first_block, rpc_vars, api_vars, cv>>

\* the consumer asks again after an exception left the generator: the
\* generator is finished
ListenerExhausted ==
    /\ pc = "raised"
    /\ pc' = "finished"
    /\ UNCHANGED <<height, trace, first_block, rpc_vars, api_vars, cv>>

NextListener ==
    \/ ListenerStart
    \/ \E http \in ListenerHttp : ListenerHeight(http)
    \/ ListenerRequest
    \/ \E http \in ListenerHttp : ListenerAnswer(http)
    \/ ListenerSleep
    \/ ListenerResume
    \/ ListenerExhausted

SpecListener == InitListener /\ [][NextListener]_vars

\* the events of the trace that are yields
RECURSIVE Yields(_)
Yields(t) ==
    IF t = <<>> THEN <<>>
    ELSE IF t[1].ev = "yield" THEN <<t[1].h>> \o Yields(Tail(t))
    ELSE Yields(Tail(t))

(* C6: block_listener started at height H: a null answer to the request    *)
(* for height h is followed by one wait of 1 and then a request for h; a    *)
(* block answer is yielded and followed by a request for h + 1; the first   *)
(* request is for H and the yields are H, H + 1, H + 2, ... in order.       *)
C6_NullWaitsBlockAdvances ==
    (Len(trace) > 0 /\ trace[1].ev = "start") =>
    LET n == Len(trace)
        H == trace[1].h
        ys == Yields(trace)
    IN  /\ n >= 2 => trace[2] = Event("request", H)
        /\ \A i \in 2..n :
            /\ trace[i].ev = "null" =>
                 /\ trace[i - 1] = Event("request", trace[i].h)
                 /\ i + 1 <= n => trace[i + 1] = Event("sleep", 1)
                 /\ i + 2 <= n => trace[i + 2] = Event("request", trace[i].h)
            /\ trace[i].ev = "sleep" => trace[i - 1].ev = "null"
            /\ trace[i].ev = "yield" =>
                 /\ trace[i - 1] = Event("request", trace[i].h)
                 /\ i + 1 <= n => trace[i + 1] = Event("request", trace[i].h + 1)
        /\ \A k \in 1..Len(ys) : ys[k] = H + k - 1

\* answers null, null, block H: two waits, one yield, a request for H + 1
C6_Witness ==
    /\ first_block = JInt(1)
    /\ trace = << Event("start", 1),
                  Event("request", 1), Event("null", 1), Event("sleep", 1),
                  Event("request", 1), Event("null", 1), Event("sleep", 1),
                  Event("request", 1), Event("yield", 1),
                  Event("request", 2) >>

\* the generator has been left by an exception
Ended == pc \in {"raised", "finished"}

(* C7: in block_listener only a null block is waited on and repeated: a     *)
(* failure of block_number or get_block_by_number ends the sequence at      *)
(* once, with no wait, no retry and no further request, and at most one     *)
(* request is in flight at any time.                                        *)
C7_ErrorsEndTheSequence ==
    /\ [](/\ inflight <= 1
          /\ (out.kind = "raise" /\ inflight = 0) => Ended
          /\ \A i \in 1..Len(trace) :
               /\ trace[i].ev = "error" => i = Len(trace)
               /\ trace[i].ev = "sleep" => (i > 1 /\ trace[i - 1].ev = "null"))
    /\ [][Ended => (Ended' /\ posts' = posts /\ ncalls' = ncalls
                     /\ trace' = trace /\ inflight' = inflight)]_vars

\* get_block_by_number failed after a wait, and the consumer asked again
C7_Witness ==
    /\ pc = "finished"
    /\ Len(trace) = 6
    /\ trace[3].ev = "null" /\ trace[4].ev = "sleep" /\ trace[6].ev = "error"
    /\ out.exc = "JsonRpcRemoteException"
    /\ posts = 2

====
